---- MODULE Spec2Model ----
(***************************************************************************)
(* Model of app.py: the Flask backend with the two routes /analyze-crop    *)
(* (analyze_crop) and /get-farming-tips (get_farming_tips), and the        *)
(* module-level Gemini client handle "model".                              *)
(*                                                                         *)
(* Text is a sequence of one-character strings, so that str.replace and    *)
(* str.strip are computed character by character as Python computes them.  *)
(***************************************************************************)
EXTENDS Integers, Sequences, FiniteSets, TLC

VARIABLES model, frame

vars == <<model, frame>>

----------------------------------------------------------------------------
(* Bounds of the model *)

\* number of pieces the upstream text is made of when two workers interleave
MaxCallPieces == 1
\* number of pieces the upstream text is made of in the one-worker specification
MaxTextPieces == 5

\* the request workers (Flask serves each request on its own thread)
Threads == {"t1", "t2"}
T1 == "t1"

----------------------------------------------------------------------------
(* Text *)

\* the backtick character (a string literal cannot hold it)
Backtick == "BQ"
Fence == <<Backtick, Backtick, Backtick>>
Html == <<"h", "t", "m", "l">>
HtmlFence == Fence \o Html
Py == <<"p", "y">>
Whitespace == {" "}

\* the pieces upstream text is drawn from: a backtick, a code fence, the tag
\* html, other text (also usable as a language tag), whitespace
Pieces == {<<Backtick>>, Fence, Html, Py, <<" ">>}

RECURSIVE TextsUpTo(_)
TextsUpTo(n) ==
    IF n = 0 THEN {<<>>}
    ELSE LET S == TextsUpTo(n - 1) IN S \cup {p \o s : p \in Pieces, s \in S}

CallTexts == TextsUpTo(MaxCallPieces)
RawTexts == TextsUpTo(MaxTextPieces)

IsPrefix(p, s) == Len(p) <= Len(s) /\ SubSeq(s, 1, Len(p)) = p
IsSuffix(p, s) == Len(p) <= Len(s) /\ SubSeq(s, Len(s) - Len(p) + 1, Len(s)) = p
Drop(s, n) == SubSeq(s, n + 1, Len(s))

\* whether old occurs in s
RECURSIVE Contains(_, _)
Contains(s, old) ==
    IF Len(s) < Len(old) THEN FALSE
    ELSE IsPrefix(old, s) \/ Contains(Tail(s), old)

\* str.replace(old, new): every non-overlapping occurrence, leftmost first,
\* in one left-to-right pass (old is never empty here)
RECURSIVE replace(_, _, _)
replace(s, old, new) ==
    IF Len(s) < Len(old) THEN s
    ELSE IF IsPrefix(old, s) THEN new \o replace(Drop(s, Len(old)), old, new)
    ELSE <<Head(s)>> \o replace(Tail(s), old, new)

RECURSIVE lstrip(_)
lstrip(s) == IF s # <<>> /\ Head(s) \in Whitespace THEN lstrip(Tail(s)) ELSE s

RECURSIVE rstrip(_)
rstrip(s) ==
    IF s # <<>> /\ s[Len(s)] \in Whitespace THEN rstrip(SubSeq(s, 1, Len(s) - 1)) ELSE s

\* str.strip()
strip(s) == rstrip(lstrip(s))

\* mutants of cleaned_tips
cleaned_tips_no_strip(text) == replace(replace(text, HtmlFence, <<>>), Fence, <<>>)
cleaned_tips_strip_first(text) == replace(replace(strip(text), HtmlFence, <<>>), Fence, <<>>)
cleaned_tips_fence_only(text) == strip(replace(text, Fence, <<>>))

\* response.text.replace(HtmlFence, "").replace(Fence, "").strip()
cleaned_tips(text) == strip(replace(replace(text, HtmlFence, <<>>), Fence, <<>>))

----------------------------------------------------------------------------
(* JSON values, request bodies, responses *)

None == "None"
Client == "GenerativeModel"

JNull == [type |-> "null", s |-> "", n |-> 0]
JStr(s) == [type |-> "string", s |-> s, n |-> 0]
JNum(n) == [type |-> "number", s |-> "", n |-> n]

\* values the cropName field is drawn from
CropNameValues == {JNull, JStr(""), JStr("Tomatoes"), JNum(0), JNum(5)}

\* Python truthiness of a JSON value
truthy_is_not_none(v) == v.type # "null"
truthy(v) ==
    CASE v.type = "null" -> FALSE
      [] v.type = "string" -> v.s # ""
      [] v.type = "number" -> v.n # 0

NoBody == [kind |-> "none", has |-> FALSE, cropName |-> JNull]
ObjectBodies ==
    {[kind |-> "object", has |-> FALSE, cropName |-> JNull]}
        \cup {[kind |-> "object", has |-> TRUE, cropName |-> v] : v \in CropNameValues}
\* bodies that are JSON but no object, a body that is no JSON, and a request
\* that does not say it carries JSON (no body, or another content type)
OtherKinds == {"null", "array", "string", "number", "malformed", "not_json"}
OtherBodies == {[kind |-> k, has |-> FALSE, cropName |-> JNull] : k \in OtherKinds}
Bodies == ObjectBodies \cup OtherBodies

NoResp == [status |-> 0, kind |-> "none", error |-> "", tips |-> <<>>,
           crop |-> "", confidence |-> 0]
TipsResp(t) == [NoResp EXCEPT !.status = 200, !.kind = "tips", !.tips = t]
ErrorResp(code, msg) == [NoResp EXCEPT !.status = code, !.kind = "error", !.error = msg]
CropResp(c, n) == [NoResp EXCEPT !.status = 200, !.kind = "crop", !.crop = c, !.confidence = n]
\* an exception that leaves the view function: Flask answers for it
\* (an HTTPException with its own code, anything else with 500)
RaisedResp(code, exc) == [NoResp EXCEPT !.status = code, !.kind = "raised", !.error = exc]

NotConfigured == ErrorResp(500, "Gemini API not configured")
CropNameRequired == ErrorResp(400, "Crop name is required")
upstream_failure_raw(e) == ErrorResp(500, e)
upstream_failure(e) == ErrorResp(500, "Failed to get tips from Gemini API")

\* what an upstream failure says
ExcTexts == {"429 quota exceeded", "response was blocked"}

----------------------------------------------------------------------------
(* Startup: lines 17-32 *)

ApiKeys == {"absent", "", "key"}

\* the handle after the module-level try/except
init_model(api_key, configure_ok) ==
    IF api_key \in {"absent", ""} THEN None
    ELSE IF configure_ok THEN Client ELSE None

NoResponse == [ok |-> FALSE, text |-> <<>>]
NoPrompt == [crop |-> JNull]

IdleFrame == [pc |-> "idle", route |-> "none", body |-> NoBody, crop_name |-> JNull,
              prompt |-> NoPrompt, response |-> NoResponse, calls |-> 0, resp |-> NoResp]

Init ==
    /\ \E api_key \in ApiKeys, configure_ok \in BOOLEAN :
           model = init_model(api_key, configure_ok)
    /\ frame = [t \in Threads |-> IdleFrame]

----------------------------------------------------------------------------
(* POST /analyze-crop: lines 36-53 *)

possible_crops == {"Wheat", "Rice", "Sugarcane", "Cotton", "Mustard"}

\* random.randint(a, b): both ends included
randint_open_end(a, b) == a .. (b + 1)
randint(a, b) == a .. b

\* a worker is free when it handles no request
Free(t) == frame[t].pc \in {"idle", "done"}

\* the whole view function: it reads neither the request (so the request is
\* no input of the action) nor the handle
analyze_crop(t) ==
    /\ Free(t)
    /\ \E detected_crop \in possible_crops, confidence_score \in randint(85, 98) :
           frame' = [frame EXCEPT ![t] =
                        [IdleFrame EXCEPT !.pc = "done", !.route = "analyze",
                                          !.resp = CropResp(detected_crop, confidence_score)]]
    /\ UNCHANGED model

----------------------------------------------------------------------------
(* POST /get-farming-tips: lines 55-105 *)

\* a request reaches the view function
receive_tips(t) ==
    /\ Free(t)
    /\ \E body \in Bodies :
           frame' = [frame EXCEPT ![t] =
                        [IdleFrame EXCEPT !.pc = "check_model", !.route = "tips",
                                          !.body = body]]
    /\ UNCHANGED model

\* "not model" (line 62)
not_model_never(m) == FALSE
not_model(m) == m = None

\* lines 62-63: the first step of the view function
check_model(t) ==
    /\ frame[t].pc = "check_model"
    /\ frame' = [frame EXCEPT ![t] =
                    IF not_model(model)
                    THEN [@ EXCEPT !.pc = "done", !.resp = NotConfigured]
                    ELSE [@ EXCEPT !.pc = "get_json"]]
    /\ UNCHANGED model

\* the f-string of lines 74-91: fixed text around the crop name
build_prompt(crop_name) == [crop |-> crop_name]

\* lines 66-91: request.get_json(), data.get('cropName'), the check, the prompt.
\* get_json raises BadRequest on a body that is no JSON; on a request that does
\* not say it carries JSON it raises UnsupportedMediaType or returns None,
\* depending on the Flask release. data.get raises AttributeError when data
\* is no dict.
parse_and_validate(t) ==
    /\ frame[t].pc = "get_json"
    /\ LET f == frame[t]
           body == f.body
           Raise(code, exc) == [f EXCEPT !.pc = "done", !.resp = RaisedResp(code, exc)]
           crop_name == IF body.has THEN body.cropName ELSE JNull
       IN \E legacy \in BOOLEAN :
              frame' = [frame EXCEPT ![t] =
                  CASE body.kind = "malformed" -> Raise(400, "BadRequest")
                    [] body.kind = "not_json" ->
                           IF legacy THEN Raise(500, "AttributeError")
                           ELSE Raise(415, "UnsupportedMediaType")
                    [] body.kind \in {"null", "array", "string", "number"} ->
                           Raise(500, "AttributeError")
                    [] body.kind = "object" ->
                           IF ~truthy(crop_name)
                           THEN [f EXCEPT !.pc = "done", !.crop_name = crop_name,
                                          !.resp = CropNameRequired]
                           ELSE [f EXCEPT !.pc = "generate", !.crop_name = crop_name,
                                          !.prompt = build_prompt(crop_name)]]
    /\ UNCHANGED model

\* lines 103-105: the except clause; f is the worker's frame where the try
\* block stopped
except_Exception_retry(t, f, e) ==
    /\ frame' = [frame EXCEPT ![t] =
                    [f EXCEPT !.pc = "done", !.calls = @ + 1, !.resp = upstream_failure(e)]]
    /\ UNCHANGED model
except_Exception_reset(t, f, e) ==
    /\ frame' = [frame EXCEPT ![t] = [f EXCEPT !.pc = "done", !.resp = upstream_failure(e)]]
    /\ model' = None
except_Exception(t, f, e) ==
    /\ frame' = [frame EXCEPT ![t] = [f EXCEPT !.pc = "done", !.resp = upstream_failure(e)]]
    /\ UNCHANGED model

\* line 95: model.generate_content(prompt), which raises or returns a response
\* whose text is readable or not; texts is what the service may answer
generate_content(t, texts) ==
    /\ frame[t].pc = "generate"
    /\ IF model = None
       THEN except_Exception(t, frame[t], "AttributeError")
       ELSE LET f == [frame[t] EXCEPT !.calls = @ + 1]
            IN \/ \E e \in ExcTexts : except_Exception(t, f, e)
               \/ \E text \in texts :
                      /\ frame' = [frame EXCEPT ![t] =
                                      [f EXCEPT !.pc = "clean",
                                                !.response = [ok |-> TRUE, text |-> text]]]
                      /\ UNCHANGED model
               \/ /\ frame' = [frame EXCEPT ![t] =
                                  [f EXCEPT !.pc = "clean", !.response = NoResponse]]
                  /\ UNCHANGED model

\* lines 99-102: response.text (which may raise), the clean-up, the answer
clean_and_respond(t) ==
    /\ frame[t].pc = "clean"
    /\ LET f == frame[t]
       IN IF f.response.ok
          THEN /\ frame' = [frame EXCEPT ![t] =
                               [f EXCEPT !.pc = "done",
                                         !.resp = TipsResp(cleaned_tips(f.response.text))]]
               /\ UNCHANGED model
          ELSE \E e \in ExcTexts : except_Exception(t, f, e)

----------------------------------------------------------------------------
(* Specifications *)

AnalyzeCrop == \E t \in Threads : analyze_crop(t)
ReceiveTips == \E t \in Threads : receive_tips(t)
CheckModel == \E t \in Threads : check_model(t)
ParseAndValidate == \E t \in Threads : parse_and_validate(t)
GenerateContent == \E t \in Threads : generate_content(t, CallTexts)
CleanAndRespond == \E t \in Threads : clean_and_respond(t)

\* the workers serve requests concurrently
Next ==
    \/ AnalyzeCrop
    \/ ReceiveTips
    \/ CheckModel
    \/ ParseAndValidate
    \/ GenerateContent
    \/ CleanAndRespond

Spec == Init /\ [][Next]_vars

SeqAnalyzeCrop == analyze_crop(T1)
SeqReceiveTips == receive_tips(T1)
SeqCheckModel == check_model(T1)
SeqParseAndValidate == parse_and_validate(T1)
SeqGenerateContent == generate_content(T1, RawTexts)
SeqCleanAndRespond == clean_and_respond(T1)

\* one worker serves one request after another; the service answers any of RawTexts
NextSeq ==
    \/ SeqAnalyzeCrop
    \/ SeqReceiveTips
    \/ SeqCheckModel
    \/ SeqParseAndValidate
    \/ SeqGenerateContent
    \/ SeqCleanAndRespond

SpecSeq == Init /\ [][NextSeq]_vars

----------------------------------------------------------------------------
(* Properties *)

TipsDone(t) == frame[t].route = "tips" /\ frame[t].pc = "done"
\* the body is a JSON object without cropName, or with cropName ""
MissingCropName(b) == b.kind = "object" /\ (~b.has \/ b.cropName = JStr(""))
\* the body is a JSON object with a cropName that passes the check
ValidCropName(b) == b.kind = "object" /\ b.has /\ truthy(b.cropName)
Failed == ErrorResp(500, "Failed to get tips from Gemini API")

C2_NotConfiguredBeforeAnyCall ==
    model = None =>
        \A t \in Threads :
            /\ frame[t].calls = 0
            /\ frame[t].pc \notin {"generate", "clean"}
            /\ TipsDone(t) /\ ValidCropName(frame[t].body) => frame[t].resp = NotConfigured

C2_Witness ==
    \E t \in Threads :
        /\ model = None /\ TipsDone(t) /\ ValidCropName(frame[t].body)
        /\ frame[t].resp = NotConfigured /\ frame[t].calls = 0

\* C3: with a non-empty cropName and an initialized client, a failed call
\* (generate_content raised, or reading the text raised) is answered with exactly
\* 500 "Failed to get tips from Gemini API", never the exception's own text
C3_UpstreamFailureIsUniform ==
    \A t \in Threads :
        /\ TipsDone(t) /\ model # None /\ ValidCropName(frame[t].body)
        /\ ~frame[t].response.ok
        => /\ frame[t].resp = [status |-> 500, kind |-> "error",
                               error |-> "Failed to get tips from Gemini API",
                               tips |-> <<>>, crop |-> "", confidence |-> 0]
           /\ frame[t].resp.error \notin ExcTexts

C3_Witness ==
    \E t \in Threads :
        /\ TipsDone(t) /\ model # None /\ ValidCropName(frame[t].body)
        /\ ~frame[t].response.ok /\ frame[t].calls = 1 /\ frame[t].resp = Failed

\* C4: the tips of a 200 answer neither begin nor end with a code fence and
\* have no whitespace at either end
C4_TipsHaveNoFenceOrSpaceAtEnds ==
    \A t \in Threads :
        frame[t].resp.kind = "tips" =>
            LET s == frame[t].resp.tips
            IN /\ frame[t].resp.status = 200
               /\ ~IsPrefix(Fence, s)
               /\ ~IsSuffix(Fence, s)
               /\ s # <<>> => s[1] \notin Whitespace /\ s[Len(s)] \notin Whitespace

C4_Witness ==
    \E t \in Threads :
        /\ frame[t].resp.kind = "tips"
        /\ IsPrefix(<<" ">> \o Fence, frame[t].response.text)
        /\ IsSuffix(Fence \o <<" ">>, frame[t].response.text)
        /\ frame[t].resp.tips # <<>>

\* C5: cleaning the tips of a 200 answer again changes nothing
C5_CleaningIsIdempotent ==
    \A t \in Threads :
        frame[t].resp.kind = "tips" => cleaned_tips(frame[t].resp.tips) = frame[t].resp.tips

C5_Witness ==
    \E t \in Threads :
        /\ frame[t].resp.kind = "tips"
        /\ frame[t].resp.tips # <<>>
        /\ frame[t].resp.tips # frame[t].response.text
        /\ Contains(frame[t].response.text, Fence)

\* raw is: opening fence, tag, body, closing fence
Wrapped(raw, tag) ==
    /\ Len(raw) >= Len(tag) + 2 * Len(Fence)
    /\ IsPrefix(Fence \o tag, raw)
    /\ IsSuffix(Fence, raw)
BodyOf(raw, tag) == SubSeq(raw, Len(Fence) + Len(tag) + 1, Len(raw) - Len(Fence))
LangTags == {<<>>, Html, Py}

\* C6 as claimed: for text wrapped in fences, with any language tag or none,
\* around a body without fences, the tips are the body stripped of whitespace
C6_AnyTagIsStripped ==
    \A t \in Threads :
        frame[t].resp.kind = "tips" =>
            \A tag \in LangTags :
                LET raw == frame[t].response.text
                IN Wrapped(raw, tag) /\ ~Contains(BodyOf(raw, tag), Fence)
                       => frame[t].resp.tips = strip(BodyOf(raw, tag))

\* C6 amended: for text wrapped in fences, with the tag html or with no tag,
\* around a body without fences, where a fence followed by html occurs nowhere
\* but as that tagged opening fence, the tips are the body stripped of whitespace
C6_HtmlTagOrNoneIsStripped ==
    \A t \in Threads :
        frame[t].resp.kind = "tips" =>
            \A tag \in {<<>>, Html} :
                LET raw == frame[t].response.text
                IN /\ Wrapped(raw, tag)
                   /\ ~Contains(BodyOf(raw, tag), Fence)
                   /\ tag = <<>> => ~Contains(raw, HtmlFence)
                   => frame[t].resp.tips = strip(BodyOf(raw, tag))

C6_Witness ==
    \E t \in Threads :
        LET raw == frame[t].response.text
        IN /\ frame[t].resp.kind = "tips"
           /\ Wrapped(raw, Html)
           /\ ~Contains(BodyOf(raw, Html), Fence)
           /\ Contains(BodyOf(raw, Html), Py)
           /\ strip(BodyOf(raw, Html)) # BodyOf(raw, Html)
           /\ frame[t].resp.tips = strip(BodyOf(raw, Html))

\* C7: every analyze-crop request is answered 200 with an integer confidence
\* from 85 to 98 and one of the five crops, whatever the client handle is
C7_AnalyzeAlwaysSucceeds ==
    \A t \in Threads :
        frame[t].route = "analyze" =>
            /\ frame[t].pc = "done"
            /\ frame[t].resp.kind = "crop" /\ frame[t].resp.status = 200
            /\ frame[t].resp.confidence \in Int
            /\ 85 <= frame[t].resp.confidence /\ frame[t].resp.confidence <= 98
            /\ frame[t].resp.crop \in {"Wheat", "Rice", "Sugarcane", "Cotton", "Mustard"}

C7_Witness ==
    \E t \in Threads :
        /\ frame[t].route = "analyze" /\ model = None
        /\ frame[t].resp.confidence = 98 /\ frame[t].resp.crop = "Mustard"

\* C8: no request changes the client handle; when it is None, every finished
\* request with a non-empty cropName has the answer 500 "Gemini API not configured"
C8_HandleNeverChanges ==
    /\ [][model' = model]_vars
    /\ [](model = None =>
            \A t \in Threads :
                TipsDone(t) /\ ValidCropName(frame[t].body) => frame[t].resp = NotConfigured)

C8_Witness ==
    \E t, u \in Threads :
        /\ t # u /\ model = None
        /\ TipsDone(t) /\ ValidCropName(frame[t].body) /\ frame[t].resp = NotConfigured
        /\ frame[u].route = "analyze" /\ frame[u].pc = "done"

\* C9: a request makes at most one outbound call: one when the cropName is
\* non-empty and the client initialized, none when it ends in "Crop name is
\* required" or "Gemini API not configured"; a failed call is not repeated
C9_AtMostOneCall ==
    \A t \in Threads :
        /\ frame[t].calls <= 1
        /\ TipsDone(t) =>
              /\ ValidCropName(frame[t].body) /\ model # None => frame[t].calls = 1
              /\ frame[t].resp \in {CropNameRequired, NotConfigured} => frame[t].calls = 0
              /\ frame[t].resp = Failed => frame[t].calls = 1

C9_Witness ==
    \E t \in Threads :
        TipsDone(t) /\ frame[t].resp = Failed /\ frame[t].calls = 1 /\ ~frame[t].response.ok

\* C10: every request to the tip generator ends with one of the four documented
\* answers, never with an exception that leaves the view function
C10_OnlyDocumentedAnswers ==
    \A t \in Threads :
        TipsDone(t) =>
            \/ frame[t].resp.kind = "tips" /\ frame[t].resp.status = 200
            \/ frame[t].resp \in {CropNameRequired, NotConfigured, Failed}

====
